---- MODULE Spec2Model ----
(***************************************************************************)
(* Model of the rig localization program main_rigLocalization.cpp:         *)
(* threshold validation (checkRobustEstimator), start-up, the frame loop   *)
(* over the N camera feeds, the statistics accumulator and the trajectory  *)
(* export.  One action per statement group of main(); pc is the position   *)
(* of the single thread of control.                                        *)
(*                                                                         *)
(* Thresholds are doubles in the program; here they are integers in units  *)
(* of 1e-7 pixel, so 1e-6 is 10 and 1.0 is 10000000.  Durations are whole  *)
(* milliseconds as returned by duration_cast<milliseconds>.                *)
(***************************************************************************)
EXTENDS Integers, Sequences, FiniteSets

\* ---------------------------------------------------------------- bounds
MaxCameras == 2
MaxFrames == 3
MaxFramesConfig == 1
MaxFramesLive == 2

\* ------------------------------------------------------ program constants
EXIT_SUCCESS == 0
EXIT_FAILURE == 1
\* status of a process killed by a failed assert (SIGABRT)
EXIT_ABORT == 134
\* std::numeric_limits<double>::infinity(), above every finite threshold
Infinity == 1000000000
\* const double minThreshold = 1e-6, in units of 1e-7
minThreshold == 10
\* bacc min/max start from the extreme doubles before the first sample
DBL_MAX == 2000000000
\* the report prints sum / 1000 as seconds
MsPerSecond == 1000
ALICEVISION_HAVE_ALEMBIC == TRUE

ROBUST_ESTIMATOR_ACRANSAC == "acransac"
ROBUST_ESTIMATOR_LORANSAC == "loransac"
ROBUST_ESTIMATOR_RANSAC == "ransac"

\* exit status while main() has not returned
NotExited == -1
NoReport == [printed |-> FALSE]
NoParam == [set |-> FALSE]
NoLocalizer == [built |-> FALSE, type |-> "none", isInit |-> FALSE]
NoImage == [cam |-> -1, frame |-> -1]
NoError == "none"

\* ------------------------------------------------------------ input sets
AllEstimators ==
  {ROBUST_ESTIMATOR_ACRANSAC, ROBUST_ESTIMATOR_LORANSAC, ROBUST_ESTIMATOR_RANSAC}
\* -4.0, 0, 1e-7, 1e-6, 1.0
AllThresholds == {-40000000, 0, 1, 10, 10000000}
LoopEstimators == {ROBUST_ESTIMATOR_ACRANSAC, ROBUST_ESTIMATOR_LORANSAC}
LoopThresholds == {0}
Durations == {10, 20, 30}

VARIABLES
  pc, exitStatus, cerr, report,
  argv, media,
  matchingEstimator, resectionEstimator, matchingErrorMax, resectionErrorMax,
  mediaPath, cameraIntrinsics, numCameras, useVoctreeLocalizer,
  localizer, param, feeders, vec_subPoses,
  haveImage, hasIntrinsics, idCamera, frameCounter, numLocalizedFrames,
  stats, rigResultPerFrame, vec_imageGrey, vec_queryIntrinsics,
  isLocalized, detect_elapsed, localizationResults,
  imageGrey, queryIntrinsics,
  exporter, cameraExporters,
  localizeRigCalls, allIntrinsics, feedIsInit, feedLog

vars == <<pc, exitStatus, cerr, report, argv, media,
  matchingEstimator, resectionEstimator, matchingErrorMax, resectionErrorMax,
  mediaPath, cameraIntrinsics, numCameras, useVoctreeLocalizer,
  localizer, param, feeders, vec_subPoses,
  haveImage, hasIntrinsics, idCamera, frameCounter, numLocalizedFrames,
  stats, rigResultPerFrame, vec_imageGrey, vec_queryIntrinsics,
  isLocalized, detect_elapsed, localizationResults,
  imageGrey, queryIntrinsics,
  exporter, cameraExporters, localizeRigCalls, allIntrinsics, feedIsInit, feedLog>>

\* groups of variables, for UNCHANGED
optVars == <<matchingEstimator, resectionEstimator, matchingErrorMax, resectionErrorMax>>
envVars == <<argv, media, mediaPath, cameraIntrinsics>>
cfgVars == <<numCameras, useVoctreeLocalizer, localizer, param, vec_subPoses>>
frameVars == <<haveImage, hasIntrinsics, idCamera, vec_imageGrey, vec_queryIntrinsics,
               imageGrey, queryIntrinsics>>
engineVars == <<isLocalized, detect_elapsed, localizationResults, localizeRigCalls>>
logVars == <<frameCounter, numLocalizedFrames, stats, rigResultPerFrame>>
exportVars == <<exporter, cameraExporters>>
exitVars == <<exitStatus, cerr, report>>

Cameras == 0 .. (numCameras - 1)

\* the threshold test written with < instead of <=
checkRobustEstimator_StrictLess(e, value) ==
  IF e # ROBUST_ESTIMATOR_LORANSAC /\ e # ROBUST_ESTIMATOR_ACRANSAC
  THEN [ok |-> FALSE, value |-> value, cerr |-> "UnsupportedEstimator"]
  ELSE LET v == IF value = 0 /\ e = ROBUST_ESTIMATOR_ACRANSAC
                THEN Infinity ELSE value
       IN IF e = ROBUST_ESTIMATOR_LORANSAC /\ v < minThreshold
          THEN [ok |-> FALSE, value |-> v, cerr |-> "ThresholdTooSmall"]
          ELSE [ok |-> TRUE, value |-> v, cerr |-> NoError]

\* ------------------------------------------------- checkRobustEstimator
\* bool checkRobustEstimator(EROBUST_ESTIMATOR e, double &value): the result
\* carries the return value, the (possibly rewritten) reference argument
\* and the diagnostic printed on failure.
checkRobustEstimator(e, value) ==
  IF e # ROBUST_ESTIMATOR_LORANSAC /\ e # ROBUST_ESTIMATOR_ACRANSAC
  THEN [ok |-> FALSE, value |-> value, cerr |-> "UnsupportedEstimator"]
  ELSE LET v == IF value = 0 /\ e = ROBUST_ESTIMATOR_ACRANSAC
                THEN Infinity ELSE value
       IN IF e = ROBUST_ESTIMATOR_LORANSAC /\ v <= minThreshold
          THEN [ok |-> FALSE, value |-> v, cerr |-> "ThresholdTooSmall"]
          ELSE [ok |-> TRUE, value |-> v, cerr |-> NoError]

\* && written for ||
EstimatorsRejected_Both(okMatching, okResection) == ~okMatching /\ ~okResection

\* if(!check(matching) || !check(resection)) return EXIT_FAILURE;
EstimatorsRejected(okMatching, okResection) == ~okMatching \/ ~okResection

\* ------------------------------------------------------------------ Init
EmptyStats == [count |-> 0, sum |-> 0, min |-> DBL_MAX, max |-> -DBL_MAX]

InitOver(estimators, thresholds, maxFrames) ==
  /\ pc = "checkEstimators"
  /\ exitStatus = NotExited
  /\ cerr = NoError
  /\ report = NoReport
  /\ matchingEstimator \in estimators
  /\ resectionEstimator \in estimators
  /\ matchingErrorMax \in thresholds
  /\ resectionErrorMax \in thresholds
  /\ argv = [matchingError |-> matchingErrorMax, reprojectionError |-> resectionErrorMax,
             preset |-> "normal", refineIntrinsics |-> FALSE,
             useLocalizeRigNaive |-> FALSE, angularThreshold |-> 1]
  /\ mediaPath \in 1 .. MaxCameras
  /\ cameraIntrinsics \in 1 .. MaxCameras
  /\ media \in [0 .. (mediaPath - 1) -> 0 .. maxFrames]
  /\ numCameras = 0
  /\ useVoctreeLocalizer = TRUE
  /\ localizer = NoLocalizer
  /\ param = NoParam
  /\ feeders = [i \in {} |-> 0]
  /\ vec_subPoses = 0
  /\ haveImage = TRUE
  /\ hasIntrinsics = FALSE
  /\ idCamera = 0
  /\ frameCounter = 0
  /\ numLocalizedFrames = 0
  /\ stats = EmptyStats
  /\ rigResultPerFrame = <<>>
  /\ vec_imageGrey = <<>>
  /\ vec_queryIntrinsics = <<>>
  /\ imageGrey = NoImage
  /\ queryIntrinsics = NoImage
  /\ isLocalized = FALSE
  /\ detect_elapsed = 0
  /\ localizationResults = [call |-> -1, localized |-> FALSE]
  /\ exporter = <<>>
  /\ cameraExporters = [i \in {} |-> <<>>]
  /\ localizeRigCalls = <<>>
  /\ allIntrinsics = TRUE
  /\ feedIsInit = [i \in {} |-> FALSE]
  /\ feedLog = <<>>

Init == InitOver(LoopEstimators, LoopThresholds, MaxFrames)
InitConfig == InitOver(AllEstimators, AllThresholds, MaxFramesConfig)
InitLive == InitOver(LoopEstimators, LoopThresholds, MaxFramesLive)

\* the diagnostic written without leaving main
Exit_NoReturn(status, message) ==
  /\ cerr' = message
  /\ UNCHANGED <<pc, exitStatus, report>>

\* return <status>; with the diagnostic written to the error stream
Exit(status, message) ==
  /\ pc' = "done"
  /\ exitStatus' = status
  /\ cerr' = message
  /\ UNCHANGED report

\* --------------------------------------------------------------- start-up
\* lines 259-263
CheckEstimators ==
  /\ pc = "checkEstimators"
  /\ LET m == checkRobustEstimator(matchingEstimator, matchingErrorMax)
         r == checkRobustEstimator(resectionEstimator, resectionErrorMax)
     IN /\ matchingErrorMax' = m.value
        \* || short-circuits: the resection check runs only if matching passed
        /\ resectionErrorMax' = IF m.ok THEN r.value ELSE resectionErrorMax
        /\ IF EstimatorsRejected(m.ok, r.ok)
           THEN Exit(EXIT_FAILURE, IF m.ok THEN r.cerr ELSE m.cerr)
           ELSE /\ pc' = "checkCounts"
                /\ UNCHANGED exitVars
  /\ UNCHANGED <<matchingEstimator, resectionEstimator, envVars, cfgVars, feeders,
                 frameVars, engineVars, logVars, exportVars, allIntrinsics>>
  /\ UNCHANGED <<feedIsInit, feedLog>>

\* the comparison of the two counts left out
CheckCounts_Unchecked ==
  /\ pc = "checkCounts"
  /\ numCameras' = mediaPath
  /\ pc' = "buildLocalizer"
  /\ UNCHANGED <<exitVars, optVars, envVars, useVoctreeLocalizer, localizer, param,
                 vec_subPoses, feeders, frameVars, engineVars, logVars, exportVars,
                 allIntrinsics, feedIsInit, feedLog>>

\* lines 265-271
CheckCounts ==
  /\ pc = "checkCounts"
  /\ IF mediaPath # cameraIntrinsics
     THEN /\ Exit(EXIT_FAILURE, "CountMismatch")
          /\ UNCHANGED numCameras
     ELSE /\ numCameras' = mediaPath
          /\ pc' = "buildLocalizer"
          /\ UNCHANGED exitVars
  /\ UNCHANGED <<optVars, envVars, useVoctreeLocalizer, localizer, param, vec_subPoses,
                 feeders, frameVars, engineVars, logVars, exportVars, allIntrinsics>>
  /\ UNCHANGED <<feedIsInit, feedLog>>

\* lines 273-367: the engine is selected by the describer types and built,
\* the parameters are filled from the validated options
BuildLocalizer ==
  /\ pc = "buildLocalizer"
  /\ \E voctree \in BOOLEAN, init \in BOOLEAN :
       /\ useVoctreeLocalizer' = voctree
       /\ localizer' = [built |-> TRUE,
                        type |-> IF voctree THEN "voctree" ELSE "cctag",
                        isInit |-> init]
       /\ param' = IF voctree
                   THEN [set |-> TRUE, type |-> "voctree",
                         _matchingError |-> matchingErrorMax,
                         _errorMax |-> resectionErrorMax,
                         _resectionEstimator |-> resectionEstimator,
                         _matchingEstimator |-> matchingEstimator,
                         _featurePreset |-> argv.preset,
                         _refineIntrinsics |-> argv.refineIntrinsics,
                         _useLocalizeRigNaive |-> argv.useLocalizeRigNaive,
                         _angularThreshold |-> [D2R |-> argv.angularThreshold]]
                   ELSE [set |-> TRUE, type |-> "cctag",
                         _errorMax |-> resectionErrorMax,
                         _resectionEstimator |-> resectionEstimator,
                         _matchingEstimator |-> matchingEstimator,
                         _featurePreset |-> argv.preset,
                         _refineIntrinsics |-> argv.refineIntrinsics,
                         _useLocalizeRigNaive |-> argv.useLocalizeRigNaive,
                         _angularThreshold |-> [D2R |-> argv.angularThreshold]]
  /\ pc' = "isInit"
  /\ UNCHANGED <<exitVars, optVars, envVars, numCameras, vec_subPoses, feeders,
                 frameVars, engineVars, logVars, exportVars, allIntrinsics>>
  /\ UNCHANGED <<feedIsInit, feedLog>>

\* lines 369-394: the localizer must be initialized; then one exporter per
\* track and a vector of numCameras (still null) feed pointers
LocalizerIsInit ==
  /\ pc = "isInit"
  /\ IF ~localizer.isInit
     THEN /\ Exit(EXIT_FAILURE, "LocalizerInit")
          /\ UNCHANGED <<feeders, exportVars, idCamera>>
     ELSE /\ exporter' = <<>>
          /\ cameraExporters' = IF ALICEVISION_HAVE_ALEMBIC
                                THEN [i \in Cameras |-> <<>>]
                                ELSE cameraExporters
          /\ feeders' = [i \in Cameras |-> -1]
          /\ idCamera' = 0
          /\ pc' = "initFeeders"
          /\ UNCHANGED exitVars
  /\ UNCHANGED <<optVars, envVars, cfgVars, haveImage, hasIntrinsics, vec_imageGrey,
                 vec_queryIntrinsics, imageGrey, queryIntrinsics,
                 engineVars, logVars, allIntrinsics>>
  /\ UNCHANGED <<feedIsInit, feedLog>>

\* lines 397-415: one FeedProvider per camera, positioned on its first frame
InitFeeder ==
  /\ pc = "initFeeders"
  /\ idCamera < numCameras
  /\ feeders' = [feeders EXCEPT ![idCamera] = 0]
  /\ \E isInit \in BOOLEAN :
       /\ feedIsInit' = [i \in DOMAIN feedIsInit \cup {idCamera} |->
                           IF i = idCamera THEN isInit ELSE feedIsInit[i]]
       /\ IF ~isInit
          THEN /\ Exit(EXIT_FAILURE, "FeedInit")
               /\ UNCHANGED idCamera
          ELSE /\ idCamera' = idCamera + 1
               /\ pc' = IF idCamera + 1 < numCameras THEN "initFeeders"
                        ELSE "loadRigCalibration"
               /\ UNCHANGED exitVars
  /\ UNCHANGED <<optVars, envVars, cfgVars, haveImage, hasIntrinsics, vec_imageGrey,
                 vec_queryIntrinsics, imageGrey, queryIntrinsics,
                 engineVars, logVars, exportVars, allIntrinsics>>
  /\ UNCHANGED feedLog

\* lines 418-425: the counters start at 0; the subposes are loaded from the
\* calibration file only for a rig of more than one camera
LoadRigCalibration ==
  /\ pc = "loadRigCalibration"
  /\ haveImage' = TRUE
  /\ frameCounter' = 0
  /\ numLocalizedFrames' = 0
  /\ IF numCameras > 1
     THEN \E n \in 0 .. (MaxCameras - 1) : vec_subPoses' = n
     ELSE vec_subPoses' = 0
  /\ pc' = "assertSubPoses"
  /\ UNCHANGED <<exitVars, optVars, envVars, numCameras, useVoctreeLocalizer, localizer,
                 param, feeders, hasIntrinsics, idCamera, vec_imageGrey,
                 vec_queryIntrinsics, imageGrey, queryIntrinsics, engineVars,
                 stats, rigResultPerFrame, exportVars, allIntrinsics>>
  /\ UNCHANGED <<feedIsInit, feedLog>>

\* lines 426-434: assert(vec_subPoses.size() == numCameras-1) stops a debug
\* build; a build with NDEBUG goes on
AssertSubPoses ==
  /\ pc = "assertSubPoses"
  /\ \/ /\ vec_subPoses = numCameras - 1
        /\ pc' = "while"
        /\ UNCHANGED exitVars
     \/ /\ vec_subPoses # numCameras - 1
        /\ \/ Exit(EXIT_ABORT, "AssertSubPoses")
           \/ /\ pc' = "while"
              /\ UNCHANGED exitVars
  /\ stats' = EmptyStats
  /\ rigResultPerFrame' = <<>>
  /\ UNCHANGED <<optVars, envVars, cfgVars, feeders, frameVars, engineVars,
                 frameCounter, numLocalizedFrames, exportVars, allIntrinsics>>
  /\ UNCHANGED <<feedIsInit, feedLog>>

\* ------------------------------------------------------------- frame loop
\* the loop also stopping on a frame that was not localized
LoopContinues_StopOnFailure(have) == have /\ (frameCounter = 0 \/ isLocalized)

\* while(haveImage)
LoopContinues(have) == have

\* lines 436-445: a new frame set starts with empty vectors
While ==
  /\ pc = "while"
  /\ IF LoopContinues(haveImage)
     THEN /\ vec_imageGrey' = <<>>
          /\ vec_queryIntrinsics' = <<>>
          /\ idCamera' = 0
          /\ pc' = "readImage"
     ELSE /\ pc' = "report"
          /\ UNCHANGED <<vec_imageGrey, vec_queryIntrinsics, idCamera>>
  /\ UNCHANGED <<exitVars, optVars, envVars, cfgVars, feeders, haveImage, hasIntrinsics,
                 imageGrey, queryIntrinsics, engineVars, logVars, exportVars,
                 allIntrinsics>>
  /\ UNCHANGED <<feedIsInit, feedLog>>

\* lines 447-451: readImage yields the current element of the feed, or false
\* at the end of the media; the intrinsics flag is whatever the provider
\* reports (at end of stream it is not meaningful)
ReadImage ==
  /\ pc = "readImage"
  /\ haveImage' = (feeders[idCamera] < media[idCamera])
  /\ \E intr \in BOOLEAN : hasIntrinsics' = intr
  /\ imageGrey' = IF haveImage' THEN [cam |-> idCamera, frame |-> feeders[idCamera]]
                  ELSE NoImage
  /\ queryIntrinsics' = IF haveImage' /\ hasIntrinsics'
                        THEN [cam |-> idCamera, frame |-> feeders[idCamera]]
                        ELSE NoImage
  /\ allIntrinsics' = (allIntrinsics /\ (haveImage' => hasIntrinsics'))
  /\ feedLog' = Append(feedLog, [op |-> "read", cam |-> idCamera,
                                  frame |-> frameCounter, pos |-> feeders[idCamera]])
  /\ pc' = "goToNextFrame"
  /\ UNCHANGED <<exitVars, optVars, envVars, cfgVars, feeders, idCamera, vec_imageGrey,
                 vec_queryIntrinsics, engineVars, logVars, exportVars>>
  /\ UNCHANGED feedIsInit

\* a feed advanced by two elements
NextFramePosition_Skip(position) == position + 2

\* FeedProvider::goToNextFrame
NextFramePosition(position) == position + 1

\* the feed advanced only after a read that gave an image
GoToNextFrame_OnlyIfImage ==
  /\ pc = "goToNextFrame"
  /\ IF haveImage
     THEN /\ feeders' = [feeders EXCEPT ![idCamera] = NextFramePosition(feeders[idCamera])]
          /\ feedLog' = Append(feedLog, [op |-> "advance", cam |-> idCamera,
                                          frame |-> frameCounter, pos |-> feeders[idCamera]])
     ELSE UNCHANGED <<feeders, feedLog>>
  /\ pc' = "checkFrame"
  /\ UNCHANGED <<exitVars, optVars, envVars, cfgVars, frameVars, engineVars, logVars,
                 exportVars, allIntrinsics, feedIsInit>>

\* line 452
GoToNextFrame ==
  /\ pc = "goToNextFrame"
  /\ feeders' = [feeders EXCEPT ![idCamera] = NextFramePosition(feeders[idCamera])]
  /\ feedLog' = Append(feedLog, [op |-> "advance", cam |-> idCamera,
                                  frame |-> frameCounter, pos |-> feeders[idCamera]])
  /\ pc' = "checkFrame"
  /\ UNCHANGED <<exitVars, optVars, envVars, cfgVars, frameVars, engineVars, logVars,
                 exportVars, allIntrinsics>>
  /\ UNCHANGED feedIsInit

\* the end of a secondary feed taken for the end of the stream
FrameVerdict_DesyncAsEnd(have, intrinsics, camera) ==
  IF ~have THEN "EndOfStream"
  ELSE IF ~intrinsics THEN "MissingIntrinsics" ELSE "ok"

\* the intrinsics flag tested before the image flag
FrameVerdict_IntrinsicsFirst(have, intrinsics, camera) ==
  IF ~intrinsics THEN "MissingIntrinsics"
  ELSE IF ~have
       THEN IF camera > 0 THEN "FeedDesync" ELSE "EndOfStream"
       ELSE "ok"

\* the test of the intrinsics flag left out
FrameVerdict_IgnoreIntrinsics(have, intrinsics, camera) ==
  IF ~have
  THEN IF camera > 0 THEN "FeedDesync" ELSE "EndOfStream"
  ELSE "ok"

\* lines 454-472: what the loop body decides about the element just read
FrameVerdict(have, intrinsics, camera) ==
  IF ~have
  THEN IF camera > 0 THEN "FeedDesync" ELSE "EndOfStream"
  ELSE IF ~intrinsics THEN "MissingIntrinsics" ELSE "ok"

\* lines 454-482
CheckFrame ==
  /\ pc = "checkFrame"
  /\ LET verdict == FrameVerdict(haveImage, hasIntrinsics, idCamera)
     IN CASE verdict = "FeedDesync" ->
               /\ Exit(EXIT_FAILURE, "FeedDesync")
               /\ UNCHANGED <<vec_imageGrey, vec_queryIntrinsics, idCamera>>
          [] verdict = "EndOfStream" ->
               \* break, and again break at line 478
               /\ pc' = "report"
               /\ UNCHANGED <<exitVars, vec_imageGrey, vec_queryIntrinsics, idCamera>>
          [] verdict = "MissingIntrinsics" ->
               /\ Exit(EXIT_FAILURE, "MissingIntrinsics")
               /\ UNCHANGED <<vec_imageGrey, vec_queryIntrinsics, idCamera>>
          [] OTHER ->
               /\ vec_imageGrey' = Append(vec_imageGrey, imageGrey)
               /\ vec_queryIntrinsics' = Append(vec_queryIntrinsics, queryIntrinsics)
               /\ idCamera' = idCamera + 1
               /\ pc' = IF idCamera + 1 < numCameras THEN "readImage" ELSE "localizeRig"
               /\ UNCHANGED exitVars
  /\ UNCHANGED <<optVars, envVars, cfgVars, feeders, haveImage, hasIntrinsics,
                 imageGrey, queryIntrinsics, engineVars, logVars, exportVars,
                 allIntrinsics>>
  /\ UNCHANGED <<feedIsInit, feedLog>>

\* the engine writing into the parameters it was handed
LocalizeRig_WritesParam ==
  /\ pc = "localizeRig"
  /\ \E localized \in BOOLEAN, elapsed \in Durations :
       /\ isLocalized' = localized
       /\ detect_elapsed' = elapsed
       /\ localizationResults' = [call |-> Len(localizeRigCalls), localized |-> localized]
       /\ localizeRigCalls' = Append(localizeRigCalls,
            [images |-> vec_imageGrey, intrinsics |-> vec_queryIntrinsics,
             subposes |-> vec_subPoses, isLocalized |-> localized,
             elapsed |-> elapsed])
       /\ param' = [param EXCEPT !._refineIntrinsics = ~localized]
  /\ pc' = "record"
  /\ UNCHANGED <<exitVars, optVars, envVars, numCameras, useVoctreeLocalizer, localizer,
                 vec_subPoses, feeders, frameVars, logVars, exportVars, allIntrinsics,
                 feedIsInit, feedLog>>

\* the next frame set read while the result of this one is still to be
\* recorded and exported
LocalizeRig_Pipelined ==
  /\ pc = "localizeRig"
  /\ \E localized \in BOOLEAN, elapsed \in Durations :
       /\ isLocalized' = localized
       /\ detect_elapsed' = elapsed
       /\ localizationResults' = [call |-> Len(localizeRigCalls), localized |-> localized]
       /\ localizeRigCalls' = Append(localizeRigCalls,
            [images |-> vec_imageGrey, intrinsics |-> vec_queryIntrinsics,
             subposes |-> vec_subPoses, isLocalized |-> localized,
             elapsed |-> elapsed])
  /\ pc' = "while"
  /\ UNCHANGED <<exitVars, optVars, envVars, cfgVars, feeders, frameVars, logVars,
                 exportVars, allIntrinsics, feedIsInit, feedLog>>

\* lines 484-497: the engine is called once with the frame set; its outcome
\* and the time it took are inputs
LocalizeRig ==
  /\ pc = "localizeRig"
  /\ \E localized \in BOOLEAN, elapsed \in Durations :
       /\ isLocalized' = localized
       /\ detect_elapsed' = elapsed
       /\ localizationResults' = [call |-> Len(localizeRigCalls), localized |-> localized]
       /\ localizeRigCalls' = Append(localizeRigCalls,
            [images |-> vec_imageGrey, intrinsics |-> vec_queryIntrinsics,
             subposes |-> vec_subPoses, isLocalized |-> localized,
             elapsed |-> elapsed])
  /\ pc' = "record"
  /\ UNCHANGED <<exitVars, optVars, envVars, cfgVars, feeders, frameVars, logVars,
                 exportVars, allIntrinsics>>
  /\ UNCHANGED <<feedIsInit, feedLog>>

\* the maximum overwritten by the latest sample
Accumulate_LastAsMax(s, sample) ==
  [count |-> s.count + 1,
   sum |-> s.sum + sample,
   min |-> IF sample < s.min THEN sample ELSE s.min,
   max |-> sample]

\* stats(sample) of the accumulator_set<mean, min, max, sum>
Accumulate(s, sample) ==
  [count |-> s.count + 1,
   sum |-> s.sum + sample,
   min |-> IF sample < s.min THEN sample ELSE s.min,
   max |-> IF sample > s.max THEN sample ELSE s.max]

\* the log overwritten by the latest result
Record_Overwrite ==
  /\ pc = "record"
  /\ stats' = Accumulate(stats, detect_elapsed)
  /\ rigResultPerFrame' = <<localizationResults>>
  /\ pc' = "export"
  /\ UNCHANGED <<exitVars, optVars, envVars, cfgVars, feeders, frameVars, engineVars,
                 frameCounter, numLocalizedFrames, exportVars, allIntrinsics,
                 feedIsInit, feedLog>>

\* lines 498-500
Record ==
  /\ pc = "record"
  /\ stats' = Accumulate(stats, detect_elapsed)
  /\ rigResultPerFrame' = Append(rigResultPerFrame, localizationResults)
  /\ pc' = "export"
  /\ UNCHANGED <<exitVars, optVars, envVars, cfgVars, feeders, frameVars, engineVars,
                 frameCounter, numLocalizedFrames, exportVars, allIntrinsics>>
  /\ UNCHANGED <<feedIsInit, feedLog>>

\* no gap marker for a frame that was not localized
ExportTrack_NoJump(track, localized, frame) ==
  IF localized
  THEN Append(track, [kind |-> "keyframe", frame |-> frame])
  ELSE track

\* addCameraKeyframe(pose, intrinsics, path, frameCounter, frameCounter) or
\* jumpKeyframe() on one exporter
ExportTrack(track, localized, frame) ==
  IF localized
  THEN Append(track, [kind |-> "keyframe", frame |-> frame])
  ELSE Append(track, [kind |-> "jump", frame |-> -1])

\* the localized counter incremented for every frame
Export_CountAll ==
  /\ pc = "export"
  /\ numLocalizedFrames' = numLocalizedFrames + 1
  /\ IF ALICEVISION_HAVE_ALEMBIC
     THEN /\ exporter' = ExportTrack(exporter, isLocalized, frameCounter)
          /\ cameraExporters' = [camIDX \in Cameras |->
               ExportTrack(cameraExporters[camIDX], isLocalized, frameCounter)]
     ELSE UNCHANGED exportVars
  /\ pc' = "incrFrame"
  /\ UNCHANGED <<exitVars, optVars, envVars, cfgVars, feeders, frameVars, engineVars,
                 frameCounter, stats, rigResultPerFrame, allIntrinsics,
                 feedIsInit, feedLog>>

\* lines 502-532
Export ==
  /\ pc = "export"
  /\ numLocalizedFrames' = IF isLocalized THEN numLocalizedFrames + 1
                           ELSE numLocalizedFrames
  /\ IF ALICEVISION_HAVE_ALEMBIC
     THEN /\ exporter' = ExportTrack(exporter, isLocalized, frameCounter)
          /\ cameraExporters' = [camIDX \in Cameras |->
               ExportTrack(cameraExporters[camIDX], isLocalized, frameCounter)]
     ELSE UNCHANGED exportVars
  /\ pc' = "incrFrame"
  /\ UNCHANGED <<exitVars, optVars, envVars, cfgVars, feeders, frameVars, engineVars,
                 frameCounter, stats, rigResultPerFrame, allIntrinsics>>
  /\ UNCHANGED <<feedIsInit, feedLog>>

\* line 534
IncrFrame ==
  /\ pc = "incrFrame"
  /\ frameCounter' = frameCounter + 1
  /\ pc' = "while"
  /\ UNCHANGED <<exitVars, optVars, envVars, cfgVars, feeders, frameVars, engineVars,
                 numLocalizedFrames, stats, rigResultPerFrame, exportVars,
                 allIntrinsics>>
  /\ UNCHANGED <<feedIsInit, feedLog>>

\* ------------------------------------------------------------ the report
RECURSIVE GCD(_, _)
GCD(a, b) == IF b = 0 THEN a ELSE GCD(b, a % b)

\* a / b in double arithmetic, kept exact as a reduced fraction; 0 / 0 is
\* NaN, written 0 / 0
Divide(a, b) ==
  IF b = 0 THEN [num |-> a, den |-> 0]
  ELSE LET g == GCD(a, b) IN [num |-> a \div g, den |-> b \div g]

\* lines 537-544: the summary, then main returns 0
Report ==
  /\ pc = "report"
  /\ report' = [printed |-> TRUE,
                localized |-> numLocalizedFrames,
                attempted |-> frameCounter,
                sumSeconds |-> Divide(stats.sum, MsPerSecond),
                mean |-> Divide(stats.sum, stats.count),
                max |-> stats.max,
                min |-> stats.min]
  /\ pc' = "done"
  /\ exitStatus' = EXIT_SUCCESS
  /\ UNCHANGED <<cerr, optVars, envVars, cfgVars, feeders, frameVars, engineVars,
                 logVars, exportVars, allIntrinsics>>
  /\ UNCHANGED <<feedIsInit, feedLog>>

Next ==
  \/ CheckEstimators
  \/ CheckCounts
  \/ BuildLocalizer
  \/ LocalizerIsInit
  \/ InitFeeder
  \/ LoadRigCalibration
  \/ AssertSubPoses
  \/ While
  \/ ReadImage
  \/ GoToNextFrame
  \/ CheckFrame
  \/ LocalizeRig
  \/ Record
  \/ Export
  \/ IncrFrame
  \/ Report

Spec == Init /\ [][Next]_vars
SpecConfig == InitConfig /\ [][Next]_vars

\* main runs in one thread and each statement is followed by the next: a
\* step that can be taken is taken, the call of the engine included
SpecLive == InitLive /\ [][Next]_vars /\ WF_vars(Next)

\* -------------------------------------------------------- derived notions
LoopPositions == {"while", "readImage", "goToNextFrame", "checkFrame", "localizeRig",
                  "record", "export", "incrFrame"}
Running == pc \in LoopPositions
Terminated == pc = "done"
Completed == Terminated /\ exitStatus = EXIT_SUCCESS
Aborted == Terminated /\ exitStatus # EXIT_SUCCESS
StartupErrors == {"UnsupportedEstimator", "ThresholdTooSmall", "CountMismatch",
                  "LocalizerInit", "FeedInit", "AssertSubPoses"}
MidStreamErrors == {"FeedDesync", "MissingIntrinsics"}
\* the run got as far as the frame loop
LoopEntered == Running \/ pc = "report" \/ (Terminated /\ cerr \notin StartupErrors)

TypeOK ==
  /\ pc \in LoopPositions \cup {"checkEstimators", "checkCounts", "buildLocalizer",
        "isInit", "initFeeders", "loadRigCalibration", "assertSubPoses", "report", "done"}
  /\ exitStatus \in {NotExited, EXIT_SUCCESS, EXIT_FAILURE, EXIT_ABORT}
  /\ cerr \in {NoError} \cup StartupErrors \cup MidStreamErrors
  /\ numCameras \in 0 .. MaxCameras
  /\ frameCounter \in Nat

\* ------------------------------------------------- reference definitions
RECURSIVE SumSeq(_)
SumSeq(s) == IF s = <<>> THEN 0 ELSE Head(s) + SumSeq(Tail(s))

Calls == 1 .. Len(localizeRigCalls)
Elapsed == [i \in Calls |-> localizeRigCalls[i].elapsed]
Outcomes == [i \in Calls |-> localizeRigCalls[i].isLocalized]
Last(s) == s[Len(s)]

\* a track holds one item per engine call, a jump exactly where the call
\* returned false and otherwise a keyframe carrying the frame index
TrackAligned(track) ==
  /\ Len(track) = Len(localizeRigCalls)
  /\ \A i \in Calls :
       IF localizeRigCalls[i].isLocalized
       THEN track[i].kind = "keyframe" /\ track[i].frame = i - 1
       ELSE track[i].kind = "jump"

\* the validator as section 4.1 of the specification words it
RefRejected(kind, threshold) ==
  \/ kind \notin {ROBUST_ESTIMATOR_ACRANSAC, ROBUST_ESTIMATOR_LORANSAC}
  \/ kind = ROBUST_ESTIMATOR_LORANSAC /\ threshold <= minThreshold
RefValue(kind, threshold) ==
  IF kind = ROBUST_ESTIMATOR_ACRANSAC /\ threshold = 0 THEN Infinity ELSE threshold
MatchingRejected == RefRejected(matchingEstimator, argv.matchingError)
ResectionRejected == RefRejected(resectionEstimator, argv.reprojectionError)
ValidationErrors == {"UnsupportedEstimator", "ThresholdTooSmall"}

\* ------------------------------------------------------------------ claims

\* C1: when all N feeds hold exactly K frames and every image read comes with
\* intrinsics, a run that entered the frame loop ends Completed with exactly
\* K engine calls, K log entries and frameCounter = K, whatever the engine
\* returned.
C1_AllFramesAttempted ==
  (Terminated /\ LoopEntered /\ allIntrinsics /\ \A i \in Cameras : media[i] = media[0])
    => /\ Len(localizeRigCalls) = media[0]
       /\ Len(rigResultPerFrame) = media[0]
       /\ frameCounter = media[0]
       /\ Completed
       /\ cerr = NoError

C1_Witness ==
  /\ Terminated /\ LoopEntered /\ allIntrinsics
  /\ numCameras = 2 /\ media[0] = 2 /\ media[1] = 2
  /\ Len(localizeRigCalls) = 2
  /\ ~localizeRigCalls[1].isLocalized /\ localizeRigCalls[2].isLocalized

\* C2: (as claimed) when the run reaches frame K, feed 0 is exhausted at K and
\* some feed i > 0 still holds a frame K, the run ends Aborted with a feed
\* desynchronization error and K log entries.
C2_Feed0ExhaustedAborts ==
  (/\ Terminated /\ LoopEntered
   /\ frameCounter = media[0]
   /\ \E i \in Cameras : i > 0 /\ media[i] > media[0])
    => /\ Aborted
       /\ cerr = "FeedDesync"
       /\ Len(rigResultPerFrame) = media[0]

\* C3: when a feed i > 0 signals end of stream in a frame set (feed 0 gave an
\* image), the run aborts at once with a desynchronization error and a
\* non-zero status; no engine call, log entry or export is made for the frame.
C3_DesyncAborts ==
  [][(pc = "checkFrame" /\ ~haveImage /\ idCamera > 0)
       => /\ Len(vec_imageGrey) >= 1 /\ vec_imageGrey[1].cam = 0
          /\ Terminated' /\ exitStatus' # EXIT_SUCCESS /\ cerr' = "FeedDesync"
          /\ UNCHANGED <<localizeRigCalls, rigResultPerFrame, exporter, cameraExporters,
                         frameCounter, stats>>
          /\ Len(localizeRigCalls) = frameCounter
          /\ Len(rigResultPerFrame) = frameCounter
          /\ Len(exporter) = frameCounter
          /\ \A c \in Cameras : Len(cameraExporters[c]) = frameCounter]_vars

C3_Witness ==
  /\ Terminated /\ cerr = "FeedDesync" /\ exitStatus = EXIT_FAILURE
  /\ frameCounter >= 1 /\ idCamera > 0 /\ ~haveImage
  /\ Len(localizeRigCalls) = frameCounter

\* C4: (as claimed) a run aborted mid-stream by a feed desynchronization or by
\* missing intrinsics has printed the summary of the frames attempted so far.
C4_AbortStillReports ==
  (Terminated /\ cerr \in MidStreamErrors)
    => /\ report.printed
       /\ report.attempted = frameCounter
       /\ report.localized = numLocalizedFrames

\* C5: between frames and at the end, the rig track and every camera track
\* hold one item per attempted frame, in frame order; item i is a jump iff the
\* engine returned false on frame i, otherwise a keyframe with frame index i.
C5_GapAlignment ==
  (ALICEVISION_HAVE_ALEMBIC /\ pc \notin {"record", "export"})
    => /\ TrackAligned(exporter)
       /\ \A c \in DOMAIN cameraExporters : TrackAligned(cameraExporters[c])
       /\ LoopEntered => DOMAIN cameraExporters = Cameras /\ numCameras >= 1

C5_Witness ==
  /\ Terminated /\ numCameras = 2
  /\ Len(localizeRigCalls) = 3
  /\ Outcomes = <<TRUE, FALSE, TRUE>>
  /\ Len(cameraExporters[1]) = 3
  /\ cameraExporters[1][2].kind = "jump"
  /\ exporter[3] = [kind |-> "keyframe", frame |-> 2]

\* C6: the printed summary gives attempted = number of engine calls,
\* localized = number of calls that returned true, sum = sum of the
\* durations, min and max = smallest and largest duration, mean = sum /
\* count; durations 10, 20, 30 with outcomes true, false, true give 3, 2,
\* 60 ms (0.06 s), mean 20, min 10, max 30.
C6_Statistics ==
  report.printed =>
    LET n == Len(localizeRigCalls)
        total == SumSeq(Elapsed)
    IN /\ report.attempted = n
       /\ report.localized = Cardinality({i \in Calls : Outcomes[i]})
       /\ report.sumSeconds.den > 0
       /\ report.sumSeconds.num * MsPerSecond = total * report.sumSeconds.den
       /\ n > 0 =>
            /\ \A i \in Calls : report.min <= Elapsed[i] /\ Elapsed[i] <= report.max
            /\ \E i \in Calls : report.min = Elapsed[i]
            /\ \E i \in Calls : report.max = Elapsed[i]
            /\ report.mean.den > 0
            /\ report.mean.num * n = total * report.mean.den
       /\ (Elapsed = <<10, 20, 30>> /\ Outcomes = <<TRUE, FALSE, TRUE>>) =>
            /\ report.attempted = 3 /\ report.localized = 2
            /\ report.sumSeconds = [num |-> 3, den |-> 50]
            /\ report.mean = [num |-> 20, den |-> 1]
            /\ report.min = 10 /\ report.max = 30

C6_Witness ==
  /\ report.printed
  /\ Elapsed = <<10, 20, 30>>
  /\ Outcomes = <<TRUE, FALSE, TRUE>>

\* C7: a frame the engine did not localize is recorded (log entry, duration,
\* jump on every track) and the loop goes on to read the next frame set; the
\* loop is left only at the end of feed 0, on a feed desynchronization or on
\* missing intrinsics.
C7_FailureNotFatal ==
  [][/\ (pc = "incrFrame" /\ ~isLocalized)
          => /\ pc' = "while" /\ haveImage'
             /\ Len(rigResultPerFrame) = frameCounter'
             /\ ~Last(rigResultPerFrame).localized
             /\ stats.count = frameCounter'
             /\ Last(exporter).kind = "jump"
             /\ \A c \in Cameras : Last(cameraExporters[c]).kind = "jump"
     /\ (pc = "while" /\ frameCounter > 0 /\ ~isLocalized)
          => pc' = "readImage" /\ idCamera' = 0
     /\ (Running /\ ~Running')
          => \/ pc = "checkFrame" /\ ~haveImage /\ idCamera = 0 /\ pc' = "report"
             \/ pc = "checkFrame" /\ Terminated' /\ cerr' \in MidStreamErrors]_vars

C7_Witness ==
  /\ pc = "readImage" /\ idCamera = 0
  /\ frameCounter = 2
  /\ ~isLocalized
  /\ Outcomes = <<FALSE, FALSE>>

\* C8: a feed (camera 0 included) that gives an image without intrinsics
\* aborts the run at once with a missing-intrinsics error and a non-zero
\* status, with no engine call and no log entry for the frame; a feed at end
\* of stream is never reported as missing intrinsics.
C8_MissingIntrinsicsAborts ==
  [][/\ (pc = "checkFrame" /\ haveImage /\ ~hasIntrinsics)
          => /\ Terminated' /\ exitStatus' # EXIT_SUCCESS
             /\ cerr' = "MissingIntrinsics"
             /\ UNCHANGED <<localizeRigCalls, rigResultPerFrame, frameCounter>>
             /\ Len(localizeRigCalls) = frameCounter
             /\ Len(rigResultPerFrame) = frameCounter
     /\ (pc = "checkFrame" /\ ~haveImage) => cerr' # "MissingIntrinsics"]_vars

C8_Witness ==
  /\ Terminated /\ cerr = "MissingIntrinsics" /\ exitStatus = EXIT_FAILURE
  /\ idCamera = 0 /\ haveImage /\ ~hasIntrinsics
  /\ frameCounter = 1 /\ Len(localizeRigCalls) = 1

\* C9: checkRobustEstimator rejects every kind other than ACRANSAC and
\* LORANSAC and LORANSAC with a threshold <= 1e-6 (0 and 1e-7 included);
\* it accepts ACRANSAC with 0 and rewrites the threshold to infinity, accepts
\* LORANSAC above 1e-6 and ACRANSAC with a non-zero threshold unchanged; the
\* values after validation are the ones stored in the parameters.
C9_CheckRobustEstimator ==
  pc # "checkEstimators" =>
    /\ (Terminated /\ cerr \in ValidationErrors) <=> (MatchingRejected \/ ResectionRejected)
    /\ ~MatchingRejected =>
         matchingErrorMax = RefValue(matchingEstimator, argv.matchingError)
    /\ (~MatchingRejected /\ ~ResectionRejected) =>
         resectionErrorMax = RefValue(resectionEstimator, argv.reprojectionError)
    /\ (matchingEstimator = ROBUST_ESTIMATOR_RANSAC) => cerr = "UnsupportedEstimator"
    /\ (matchingEstimator = ROBUST_ESTIMATOR_LORANSAC /\ argv.matchingError \in {0, 1})
         => cerr = "ThresholdTooSmall"
    /\ (matchingEstimator = ROBUST_ESTIMATOR_LORANSAC /\ argv.matchingError = 10000000
        /\ ~ResectionRejected) => (cerr \notin ValidationErrors /\ matchingErrorMax = 10000000)
    /\ (matchingEstimator = ROBUST_ESTIMATOR_ACRANSAC /\ argv.matchingError = 0)
         => matchingErrorMax = Infinity
    /\ param.set =>
         /\ param._errorMax = RefValue(resectionEstimator, argv.reprojectionError)
         /\ param.type = "voctree" =>
              param._matchingError = RefValue(matchingEstimator, argv.matchingError)

C9_Witness ==
  /\ param.set /\ param.type = "voctree"
  /\ resectionEstimator = ROBUST_ESTIMATOR_ACRANSAC /\ argv.reprojectionError = 0
  /\ param._errorMax = Infinity
  /\ matchingEstimator = ROBUST_ESTIMATOR_LORANSAC /\ argv.matchingError = 10000000
  /\ param._matchingError = 10000000

\* C10: nothing is constructed (engine, parameters, feeds, subposes) before
\* both thresholds have passed validation; when either validation fails the
\* program exits with a failure status, no feed exists or is read and the
\* engine is never called.
C10_ValidationFirst ==
  /\ (pc = "checkEstimators" \/ MatchingRejected \/ ResectionRejected)
       => /\ ~localizer.built /\ ~param.set
          /\ DOMAIN feeders = {}
          /\ vec_subPoses = 0
          /\ localizeRigCalls = <<>> /\ rigResultPerFrame = <<>>
          /\ frameCounter = 0 /\ stats.count = 0
  /\ (pc # "checkEstimators" /\ (MatchingRejected \/ ResectionRejected))
       => Terminated /\ exitStatus = EXIT_FAILURE /\ ~report.printed

C10_Witness ==
  /\ Terminated /\ exitStatus = EXIT_FAILURE
  /\ ~MatchingRejected /\ ResectionRejected
  /\ cerr = "ThresholdTooSmall"
  /\ DOMAIN feeders = {}

\* C11: a mismatch between the numbers of media paths and intrinsics files, a
\* localizer that is not initialized and a feed that is not initialized each
\* end the run with a non-zero status before the frame loop: no feed has been
\* read, the engine has not been called and no frame has been processed; the
\* loop is entered only when none of them occurred.
C11_StartupFailures ==
  /\ LoopEntered =>
       /\ mediaPath = cameraIntrinsics /\ numCameras = mediaPath
       /\ localizer.built /\ localizer.isInit
       /\ DOMAIN feedIsInit = Cameras
       /\ \A i \in Cameras : feedIsInit[i] /\ feeders[i] >= 0
  /\ (pc \notin {"checkEstimators", "checkCounts"} /\ cerr \notin ValidationErrors
      /\ mediaPath # cameraIntrinsics) => (Terminated /\ cerr = "CountMismatch")
  /\ (pc # "isInit" /\ localizer.built /\ ~localizer.isInit)
       => (Terminated /\ cerr = "LocalizerInit")
  /\ (\E i \in DOMAIN feedIsInit : ~feedIsInit[i]) => (Terminated /\ cerr = "FeedInit")
  /\ (Terminated /\ cerr \in {"CountMismatch", "LocalizerInit", "FeedInit"}) =>
       /\ exitStatus # EXIT_SUCCESS
       /\ feedLog = <<>>
       /\ \A i \in DOMAIN feeders : feeders[i] <= 0
       /\ localizeRigCalls = <<>> /\ rigResultPerFrame = <<>>
       /\ frameCounter = 0 /\ stats.count = 0
       /\ exporter = <<>>

C11_Witness ==
  /\ Terminated /\ cerr = "FeedInit" /\ exitStatus = EXIT_FAILURE
  /\ numCameras = 2
  /\ feedIsInit[0] /\ ~feedIsInit[1]
  /\ feedLog = <<>>

\* C12: (as claimed) the frame loop is entered only with exactly N-1 subposes
\* (none for N = 1), a calibration of another size being fatal before any
\* frame is read, so that every engine call receives exactly N-1 subposes.
C12_SubposeCount ==
  /\ LoopEntered => vec_subPoses = numCameras - 1
  /\ \A k \in Calls : localizeRigCalls[k].subposes = numCameras - 1

\* a condition that the error taxonomy makes fatal
FatalCondition ==
  \/ MatchingRejected \/ ResectionRejected
  \/ mediaPath # cameraIntrinsics
  \/ localizer.built /\ ~localizer.isInit
  \/ \E i \in DOMAIN feedIsInit : ~feedIsInit[i]
  \/ LoopEntered /\ vec_subPoses # numCameras - 1
  \/ cerr \in MidStreamErrors
\* the loop was left at the end of feed 0 and the summary was printed
NormalCompletion == report.printed /\ ~haveImage /\ idCamera = 0

\* C13: (as claimed) the exit status is 0 exactly when the run ended by normal
\* stream completion, whatever the number of frames localized or attempted,
\* and every fatal configuration, initialization, desynchronization or
\* missing-intrinsics error gives a non-zero status.
C13_ExitStatus ==
  Terminated =>
    /\ (exitStatus = EXIT_SUCCESS) <=> NormalCompletion
    /\ FatalCondition => exitStatus # EXIT_SUCCESS

\* C14: (as claimed) once the frame loop is entered the resection and matching
\* thresholds held in the parameters are non-negative.
C14_NonNegativeThresholds ==
  (LoopEntered /\ param.set) =>
    /\ param._errorMax >= 0
    /\ param.type = "voctree" => param._matchingError >= 0

\* history of the feed operations
FeedOps == 1 .. Len(feedLog)
Reads(c, k) == {j \in FeedOps : feedLog[j].op = "read" /\ feedLog[j].cam = c
                                 /\ feedLog[j].frame = k}
Advances(c, k) == {j \in FeedOps : feedLog[j].op = "advance" /\ feedLog[j].cam = c
                                    /\ feedLog[j].frame = k}
AdvancesOf(c) == {j \in FeedOps : feedLog[j].op = "advance" /\ feedLog[j].cam = c}
\* the frame set being read has failed at camera idCamera
FrameSetFailed ==
  LoopEntered /\ (pc = "report" \/ Terminated) /\ Len(feedLog) > 0

\* C16: in a frame set the feeds are read in camera order 0..N-1; a feed that
\* is read is advanced exactly once, right after its read and before its
\* result is validated, also when the read fails the frame set; the feeds
\* after the first failing camera are neither read nor advanced.
C16_AdvanceThenValidate ==
  /\ \A j \in FeedOps :
       IF feedLog[j].op = "read"
       THEN /\ j % 2 = 1
            /\ feedLog[j].cam \in Cameras
            /\ feedLog[j].cam = 0 =>
                 (j = 1 \/ (feedLog[j - 2].cam = numCameras - 1
                            /\ feedLog[j - 2].frame = feedLog[j].frame - 1))
            /\ feedLog[j].cam > 0 =>
                 (feedLog[j - 2].cam = feedLog[j].cam - 1
                  /\ feedLog[j - 2].frame = feedLog[j].frame)
            /\ IF j < Len(feedLog)
               THEN feedLog[j + 1] = [feedLog[j] EXCEPT !.op = "advance"]
               ELSE pc = "goToNextFrame" /\ feedLog[j].cam = idCamera
       ELSE /\ j % 2 = 0
            /\ feedLog[j - 1] = [feedLog[j] EXCEPT !.op = "read"]
  /\ pc = "checkFrame" =>
       /\ Len(feedLog) >= 2
       /\ feedLog[Len(feedLog)].op = "advance"
       /\ feedLog[Len(feedLog)].cam = idCamera
       /\ feedLog[Len(feedLog)].frame = frameCounter
       /\ Len(vec_imageGrey) = idCamera
  /\ LoopEntered => \A c \in Cameras : feeders[c] = Cardinality(AdvancesOf(c))
  /\ FrameSetFailed =>
       \A c \in Cameras :
         IF c <= idCamera
         THEN /\ Cardinality(Reads(c, frameCounter)) = 1
              /\ Cardinality(Advances(c, frameCounter)) = 1
              /\ feeders[c] = frameCounter + 1
         ELSE /\ Reads(c, frameCounter) = {}
              /\ Advances(c, frameCounter) = {}
              /\ feeders[c] = frameCounter

C16_Witness ==
  /\ Terminated /\ cerr = "MissingIntrinsics"
  /\ numCameras = 2 /\ idCamera = 0 /\ frameCounter = 1
  /\ feeders[0] = 2 /\ feeders[1] = 1
  /\ Len(feedLog) = 6

\* C17: every engine call receives exactly N images and N intrinsics, entry i
\* taken from feed i and all of them from the frame index of the call; the
\* engine is never called with a partial or empty frame set.
C17_AllOrNothing ==
  /\ \A k \in Calls :
       /\ numCameras >= 1
       /\ Len(localizeRigCalls[k].images) = numCameras
       /\ Len(localizeRigCalls[k].intrinsics) = numCameras
       /\ \A c \in Cameras :
            /\ localizeRigCalls[k].images[c + 1] = [cam |-> c, frame |-> k - 1]
            /\ localizeRigCalls[k].intrinsics[c + 1] = [cam |-> c, frame |-> k - 1]
  /\ pc = "localizeRig" =>
       Len(vec_imageGrey) = numCameras /\ Len(vec_queryIntrinsics) = numCameras

C17_Witness ==
  /\ numCameras = 2 /\ Len(localizeRigCalls) = 2
  /\ localizeRigCalls[2].images = <<[cam |-> 0, frame |-> 1], [cam |-> 1, frame |-> 1]>>
  /\ localizeRigCalls[2].intrinsics = localizeRigCalls[2].images

\* C18: at the start of every loop iteration each of the N feeds has been
\* advanced exactly frameCounter times, and every read of iteration k reads
\* element k of its feed.
C18_Lockstep ==
  /\ pc = "while" =>
       \A c \in Cameras :
         feeders[c] = frameCounter /\ Cardinality(AdvancesOf(c)) = frameCounter
  /\ \A j \in FeedOps :
       feedLog[j].op = "read" => feedLog[j].pos = feedLog[j].frame

C18_Witness ==
  /\ pc = "while" /\ frameCounter = 2 /\ numCameras = 2
  /\ feeders[0] = 2 /\ feeders[1] = 2
  /\ Len(feedLog) = 8

\* C19: at the start of every iteration and at termination frameCounter
\* equals the length of the log, the number of durations accumulated and the
\* number of engine calls; numLocalizedFrames is the number of calls that
\* returned true and is at most frameCounter; frameCounter starts at 0 and
\* changes only by +1, once per attempted frame.
C19_Bookkeeping ==
  /\ [](pc \notin {"record", "export", "incrFrame"} =>
          /\ frameCounter = Len(rigResultPerFrame)
          /\ frameCounter = stats.count
          /\ frameCounter = Len(localizeRigCalls)
          /\ numLocalizedFrames = Cardinality({k \in Calls : Outcomes[k]})
          /\ numLocalizedFrames <= frameCounter)
  /\ [](~LoopEntered => frameCounter = 0)
  /\ [][\/ frameCounter' = frameCounter
        \/ /\ pc = "incrFrame"
           /\ frameCounter' = frameCounter + 1
           /\ Len(localizeRigCalls) = frameCounter']_vars

C19_Witness ==
  /\ Terminated /\ frameCounter = 3 /\ numLocalizedFrames = 1
  /\ stats.count = 3 /\ Len(rigResultPerFrame) = 3
  /\ Outcomes = <<FALSE, TRUE, FALSE>>

\* C20: the result log only grows by appending: every step leaves it
\* unchanged or adds exactly one entry at its end, and entry k is the result of
\* the engine call for frame index k.
C20_AppendOnly ==
  /\ [][\/ rigResultPerFrame' = rigResultPerFrame
        \/ /\ Len(rigResultPerFrame') = Len(rigResultPerFrame) + 1
           /\ SubSeq(rigResultPerFrame', 1, Len(rigResultPerFrame)) = rigResultPerFrame]_vars
  /\ [](\A k \in 1 .. Len(rigResultPerFrame) :
          /\ k <= Len(localizeRigCalls)
          /\ rigResultPerFrame[k].call = k - 1
          /\ rigResultPerFrame[k].localized = localizeRigCalls[k].isLocalized)

C20_Witness ==
  /\ Len(rigResultPerFrame) = 3
  /\ rigResultPerFrame[1].localized /\ ~rigResultPerFrame[2].localized
  /\ rigResultPerFrame[3].call = 2

\* the stages of the frame loop completed so far
EngineCalls == Len(localizeRigCalls)
Recorded == Len(rigResultPerFrame)
Exported == Len(exporter)

\* C21: frames are processed one at a time. A feed is read or advanced for
\* frame k only when frames 0..k-1 have all been localized, recorded, exported
\* and counted and frame k has not yet been handed to the engine; the engine is
\* called for frame k only after all N feeds were read for it; the result is
\* recorded after the call, exported after it is recorded, and the counter is
\* incremented last. At most one engine call is outstanding at any time.
C21_NoPipelining ==
  /\ [][feedLog' # feedLog =>
          /\ Last(feedLog').frame = frameCounter
          /\ EngineCalls = frameCounter /\ Recorded = frameCounter
          /\ stats.count = frameCounter
          /\ Exported = frameCounter
          /\ \A c \in Cameras : Len(cameraExporters[c]) = frameCounter]_vars
  /\ [][EngineCalls' # EngineCalls =>
          /\ EngineCalls' = frameCounter + 1
          /\ \A c \in Cameras :
               Reads(c, frameCounter) # {} /\ Advances(c, frameCounter) # {}
          /\ Recorded = frameCounter /\ Exported = frameCounter]_vars
  /\ [][Recorded' # Recorded =>
          /\ EngineCalls = frameCounter + 1
          /\ Recorded' = frameCounter + 1 /\ stats'.count = frameCounter + 1
          /\ Exported = frameCounter]_vars
  /\ [][Exported' # Exported =>
          /\ Recorded = frameCounter + 1
          /\ Exported' = frameCounter + 1
          /\ frameCounter' = frameCounter]_vars
  /\ [][frameCounter' # frameCounter =>
          /\ Exported = frameCounter + 1
          /\ frameCounter' = frameCounter + 1
          /\ feedLog = <<>> \/ Last(feedLog).frame = frameCounter]_vars
  /\ [](EngineCalls - frameCounter \in {0, 1})

C21_Witness ==
  /\ pc = "goToNextFrame" /\ numCameras = 2 /\ idCamera = 1 /\ frameCounter = 2
  /\ EngineCalls = 2 /\ Recorded = 2 /\ Exported = 2
  /\ Last(feedLog) = [op |-> "read", cam |-> 1, frame |-> 2, pos |-> 2]

\* the parameters as lines 360-367 fill them from the options
ParamAsBuilt ==
  /\ param.set
  /\ param.type = localizer.type
  /\ param._errorMax = resectionErrorMax
  /\ param._resectionEstimator = resectionEstimator
  /\ param._matchingEstimator = matchingEstimator
  /\ param._featurePreset = argv.preset
  /\ param._refineIntrinsics = argv.refineIntrinsics
  /\ param._useLocalizeRigNaive = argv.useLocalizeRigNaive
  /\ param._angularThreshold = [D2R |-> argv.angularThreshold]

\* C22: the frame loop leaves the configuration unchanged: from the moment
\* the loop is entered no step changes the parameters, the subpose list, the
\* camera count or the selected engine, so that in every iteration and at
\* termination they are as they were built before the loop, and every engine
\* call is handed the same subposes.
C22_ConfigurationFrozen ==
  /\ [][LoopEntered =>
          /\ param' = param
          /\ vec_subPoses' = vec_subPoses
          /\ numCameras' = numCameras
          /\ localizer' = localizer /\ useVoctreeLocalizer' = useVoctreeLocalizer
          /\ optVars' = optVars]_vars
  /\ [](LoopEntered =>
          /\ ParamAsBuilt
          /\ numCameras = mediaPath
          /\ localizer.built /\ localizer.isInit
          /\ localizer.type = (IF useVoctreeLocalizer THEN "voctree" ELSE "cctag")
          /\ \A k \in Calls : localizeRigCalls[k].subposes = vec_subPoses)

C22_Witness ==
  /\ Completed /\ frameCounter = 3 /\ numCameras = 2 /\ vec_subPoses = 1
  /\ ParamAsBuilt /\ param.type = "cctag" /\ param._errorMax = Infinity
  /\ \E k \in Calls : localizeRigCalls[k].isLocalized

\* C23: feed 0 is finite and the engine returns from every call, so every run
\* eventually leaves the frame loop and ends in a terminal state, Completed or
\* Aborted; from a terminal state on no feed is read or advanced, the engine is
\* not called, and nothing is appended to the log or exported.
C23_Termination ==
  /\ <>(Completed \/ Aborted)
  /\ [](Running => media[0] \in Nat /\ feeders[0] <= media[0] + 1)
  /\ [][Terminated =>
          /\ Terminated' /\ exitStatus' = exitStatus
          /\ feedLog' = feedLog /\ feeders' = feeders
          /\ localizeRigCalls' = localizeRigCalls
          /\ rigResultPerFrame' = rigResultPerFrame /\ stats' = stats
          /\ exportVars' = exportVars
          /\ frameCounter' = frameCounter]_vars

C23_Witness ==
  /\ Completed /\ numCameras = 2 /\ media[0] = 2 /\ media[1] = 2
  /\ frameCounter = 2 /\ Len(localizeRigCalls) = 2 /\ Len(feedLog) = 10
====
